---- MODULE Spec2Model ----
(***************************************************************************)
(* Model of the Terneo thermostat HTTP client (class Thermostat) in its    *)
(* two source variants:                                                    *)
(*   "cc"  = src/custom_components/terneo/thermostat.py                    *)
(*   "lib" = src/terneo/thermostat.py                                      *)
(* Time is counted in whole seconds.  Python values are                    *)
(* records [t |-> type name, v |-> integer]; JSON objects are functions    *)
(* from key strings to values; numeric strings are digit sequences.        *)
(***************************************************************************)
EXTENDS Integers, Sequences, FiniteSets, TLC

VARIABLES variant, phase, auth, _setpoint, _temperature, _mode, _state,
          _last_request, _in_progress, now, lastOp, lastDispatch, afterTurnOff,
          pc, start_time, wakeAt, sentAt

vars == <<variant, phase, auth, _setpoint, _temperature, _mode, _state,
          _last_request, _in_progress, now, lastOp, lastDispatch, afterTurnOff,
          pc, start_time, wakeAt, sentAt>>

clientVars == <<auth, _setpoint, _temperature, _mode, _state, _in_progress>>
threadVars == <<pc, start_time, wakeAt, sentAt>>

(* ------------------------------ bounds -------------------------------- *)
\* MaxTime: the last second at which a call may start; MaxDur: the longest HTTP
\* exchange; MaxIdle: the longest short pause between two calls; MaxModeArg:
\* the largest value assigned to mode (the smallest is -1)
MaxTime == 2
MaxDur == 1
MaxIdle == 1
MaxModeArg == 2

(* -------------------------- program constants ------------------------- *)
ThrottleSeconds == 1
UpdateIdleSeconds == 10
PowerParam == 125

(* --------------------------- Python values ---------------------------- *)
None == [t |-> "NoneType", v |-> 0]
PyBool(b) == [t |-> "bool", v |-> IF b THEN 1 ELSE 0]
PyInt(n) == [t |-> "int", v |-> n]
PyFloat(n) == [t |-> "float", v |-> n]
Truthy(x) == x.t # "NoneType" /\ x.v # 0

EmptyDict == [key \in {} |-> 0]
RetNone == [t |-> "NoneType", d |-> EmptyDict]
RetFalse == [t |-> "bool", d |-> EmptyDict]
RetDict(b) == [t |-> "dict", d |-> b]
\* truth value of what post() returned: False, or a dict (empty dicts are falsy)
RetTruthy(r) == r.t = "dict" /\ DOMAIN r.d # {}
DictGet(d, key, default) == IF key \in DOMAIN d THEN d[key] ELSE default

\* int("320"), float("320"): a decimal digit string to its number
RECURSIVE ParseNum(_)
ParseNum(s) == IF s = <<>> THEN 0 ELSE 10 * ParseNum(SubSeq(s, 1, Len(s) - 1)) + s[Len(s)]
\* str(n) for n >= 0
RECURSIVE Str(_)
Str(n) == IF n < 10 THEN <<n>> ELSE Str(n \div 10) \o <<n % 10>>

(* ------------------------- the device's answers ----------------------- *)
T1Vals == {<<3, 2, 0>>}
T5Vals == {<<2, 8, 8>>}
M1Vals == {<<0>>, <<3>>}
F0Vals == {<<0>>, <<1>>}
F16Vals == {<<0>>, <<1>>}
Fw23Bodies ==
  {("t.1" :> a) @@ ("t.5" :> b) @@ ("m.1" :> c) @@ ("f.0" :> e) :
      a \in T1Vals, b \in T5Vals, c \in M1Vals, e \in F0Vals}
Fw24Bodies == {b @@ ("f.16" :> p) : b \in Fw23Bodies, p \in F16Vals}
Restrict(f, S) == [key \in S |-> f[key]]
PartialKeys == {{}, {"t.5"}, {"t.1", "t.5"}, {"t.1", "t.5", "f.0", "f.16"},
                {"t.1", "t.5", "m.1", "f.16"}}
PartialBodies ==
  {Restrict(("t.1" :> <<3, 2, 0>>) @@ ("t.5" :> <<2, 8, 8>>) @@ ("m.1" :> <<3>>)
            @@ ("f.0" :> <<1>>) @@ ("f.16" :> <<0>>), S) : S \in PartialKeys}
TimeoutBody == ("status" :> "timeout")
StatusBodies == Fw23Bodies \cup Fw24Bodies \cup PartialBodies \cup {TimeoutBody}
ParLists == { <<>>,
              << <<125, 7, <<0>> >> >>,
              << <<125, 7, <<1>> >> >>,
              << <<2, 2, <<1>> >>, <<125, 7, <<0>> >> >> }
ParBodies == {("par" :> l) : l \in ParLists} \cup {EmptyDict, TimeoutBody}

\* the outcome of one HTTP exchange
Failed(kind) == [kind |-> kind, body |-> EmptyDict]
Json(b) == [kind |-> "json", body |-> b]
Failures == {Failed("error"), Failed("notjson")}
StatusOutcomes == Failures \cup {Json(b) : b \in StatusBodies}
ParOutcomes == Failures \cup {Json(b) : b \in ParBodies}
WriteOutcomes == Failures \cup {Json(TimeoutBody), Json("success" :> "true")}
Durations == 0..MaxDur

(* ------------------------------ requests ------------------------------ *)
StatusReq == ("cmd" :> 4)
ParReq == ("cmd" :> 1)
WriteReq(par) == ("par" :> par)
IsCmd(p, c) == "cmd" \in DOMAIN p.req /\ p.req["cmd"] = c

(* -------------------------------- post -------------------------------- *)
\* the throttle test before a POST
Throttled(v, t, last, inprog) ==
  IF v = "cc" THEN t - last < ThrottleSeconds
  ELSE (t - last < ThrottleSeconds) \/ inprog

\* whether the client stamps _last_request for this outcome of the exchange
Stamps(v, o) == v = "cc" \/ o.kind # "notjson"

\* what post() hands back: the return value and the exception raised ("" = none)
PostReturn(v, o) ==
  IF o.kind = "error" THEN [ret |-> RetFalse, exc |-> ""]
  ELSE IF v = "cc"
    THEN IF o.kind = "notjson" THEN [ret |-> RetFalse, exc |-> ""]
         ELSE IF DictGet(o.body, "status", "") = "timeout"
              THEN [ret |-> RetFalse, exc |-> ""]
              ELSE [ret |-> RetDict(o.body), exc |-> ""]
    ELSE IF o.kind = "notjson" THEN [ret |-> RetNone, exc |-> "JSONDecodeError"]
         ELSE [ret |-> RetDict(o.body), exc |-> ""]

\* k = [now, last, inprog, lastDispatch, posts]: the clock, _last_request,
\* _in_progress and the log of dispatched POSTs, threaded through the calls of
\* one operation
post(v, k, req, o, dur) ==
  LET d == IF Throttled(v, k.now, k.last, k.inprog)
           THEN k.now + ThrottleSeconds ELSE k.now
      e == d + dur
      sent == [k EXCEPT !.now = e, !.lastDispatch = d,
                        !.posts = Append(@, [req |-> req, at |-> d, out |-> o])]
      r == PostReturn(v, o)
  IN [k |-> IF Stamps(v, o) THEN [sent EXCEPT !.last = e] ELSE sent,
      ret |-> r.ret, exc |-> r.exc]

status(v, k, o, dur) == post(v, k, StatusReq, o, dur)

\* the value of the first [125, _, value] entry of the parameter list
RECURSIVE ScanPar(_, _)
ScanPar(par, notFound) ==
  IF par = <<>> THEN notFound
  ELSE IF Head(par)[1] = PowerParam THEN PyBool(Head(par)[3] = <<0>>)
  ELSE ScanPar(Tail(par), notFound)

is_on(v, k, o, dur) ==
  LET p == post(v, k, ParReq, o, dur)
      notFound == IF v = "cc" THEN PyBool(FALSE) ELSE None
  IN [k |-> p.k, exc |-> p.exc,
      val |-> IF p.exc = "" /\ RetTruthy(p.ret) /\ "par" \in DOMAIN p.ret.d
              THEN ScanPar(p.ret.d["par"], notFound) ELSE notFound]

(* ------------------------------ decoding ------------------------------ *)
Decoded(val) == [val |-> val, exc |-> ""]
KeyError == [val |-> None, exc |-> "KeyError"]
get_temperature(data) ==
  IF "t.1" \in DOMAIN data THEN Decoded(PyFloat(ParseNum(data["t.1"]) \div 16)) ELSE KeyError
get_setpoint(data) ==
  IF "t.5" \in DOMAIN data THEN Decoded(PyFloat(ParseNum(data["t.5"]) \div 16)) ELSE KeyError
get_state(data) ==
  IF "f.0" \in DOMAIN data THEN Decoded(PyBool(ParseNum(data["f.0"]) = 1)) ELSE KeyError

OffSentinel(v) == IF v = "cc" THEN PyInt(-1) ELSE PyBool(FALSE)

\* whether get_mode asks the device for the parameter table
AsksPower(v, data) == v = "lib" \/ "f.16" \notin DOMAIN data

\* the rest of get_mode once the power state q = [k, val, exc] is known
ModeOf(v, data, q) ==
  IF q.exc # "" THEN [k |-> q.k, val |-> None, exc |-> q.exc]
  ELSE IF ~Truthy(q.val) THEN [k |-> q.k, val |-> OffSentinel(v), exc |-> ""]
  ELSE IF "m.1" \in DOMAIN data
       THEN [k |-> q.k, val |-> PyInt(ParseNum(data["m.1"])), exc |-> ""]
       ELSE [k |-> q.k, val |-> None, exc |-> "KeyError"]

get_mode(v, k, data, o, dur) ==
  IF AsksPower(v, data)
  THEN ModeOf(v, data, is_on(v, k, o, dur))
  ELSE ModeOf(v, data, [k |-> k, exc |-> "", val |-> PyBool(ParseNum(data["f.16"]) = 0)])

(* ----------------------- the calling thread's view -------------------- *)
\* lastOp records the call that has just ended: its name and argument, the
\* exception it raised ("" = none), the value a getter returned (result), what
\* post() returned to a caller that gets it back (ret), the POSTs it dispatched
\* with their dispatch times and the answers they got, the dispatch time of the
\* client's previous POST (prev, -1 = none yet) and the number of GETs.
\* afterTurnOff says that the call before the current one was turn_off().
NoOp == [op |-> "none", arg |-> 0, exc |-> "", result |-> None, ret |-> RetNone,
         posts |-> <<>>, prev |-> -1, gets |-> 0]
K == [now |-> now, last |-> _last_request, inprog |-> _in_progress,
      lastDispatch |-> lastDispatch, posts |-> <<>>]
\* the horizon of the model: calls start by MaxTime, or after a long idle that
\* began early in the run
Horizon ==
  \/ now <= MaxTime
  \/ now - _last_request > UpdateIdleSeconds /\ now <= MaxTime + UpdateIdleSeconds + 1
Ready == phase = "ready" /\ lastOp.op = "none" /\ Horizon

\* the end of a call: the clock and the request bookkeeping it leaves behind
Finish(op, arg, k, exc, result, ret) ==
  /\ now' = k.now
  /\ _last_request' = k.last
  /\ lastDispatch' = k.lastDispatch
  /\ lastOp' = [op |-> op, arg |-> arg, exc |-> exc, result |-> result, ret |-> ret,
                posts |-> k.posts, prev |-> lastDispatch, gets |-> 0]
  /\ afterTurnOff' = (op = "turn_off")
  /\ UNCHANGED <<variant, phase, auth, _in_progress, threadVars>>

(* ----------------------------- construction --------------------------- *)
\* "" stands for None (both are falsy)
Creds == {"", "admin"}
Probes == {"200", "500", "unreachable"}
CredsRejected(username, password) ==
  (username # "") \/ ((password # "") /\ ~(username # "") /\ (password # ""))

Construct(username, password, probe, dur) ==
  /\ phase = "new"
  /\ IF CredsRejected(username, password)
     THEN /\ lastOp' = [NoOp EXCEPT !.op = "init", !.exc = "ValueError",
                                    !.arg = <<username, password, probe>>]
          /\ phase' = "failed"
          /\ UNCHANGED <<auth, _last_request, now>>
     ELSE /\ auth' = IF (username # "") \/ (password # "")
                     THEN [set |-> TRUE, user |-> username, pass |-> password]
                     ELSE [set |-> FALSE, user |-> "", pass |-> ""]
          /\ _last_request' = now
          /\ now' = now + dur
          /\ lastOp' = [NoOp EXCEPT !.op = "init", !.gets = 1,
                                    !.arg = <<username, password, probe>>,
                                    !.exc = CASE probe = "200" -> ""
                                              [] probe = "500" -> "AssertionError"
                                              [] OTHER -> "ConnectionError"]
          /\ phase' = IF probe = "200" THEN "ready" ELSE "failed"
  /\ _setpoint' = None /\ _temperature' = None /\ _mode' = None /\ _state' = None
  /\ _in_progress' = FALSE
  /\ UNCHANGED <<variant, lastDispatch, afterTurnOff, threadVars>>

(* ------------------------------- getters ------------------------------ *)
\* the test written as `if not self._x`
CacheUnsetFalsy(c) == ~Truthy(c)
CacheUnset(c) == c = None

\* what a lazy getter leaves in its cache once status() has returned s and the
\* field has been decoded to g
Cached(cache, s, g) ==
  IF s.exc # "" \/ ~RetTruthy(s.ret) \/ g.exc # "" THEN cache ELSE g.val
Raised(s, g) ==
  IF s.exc # "" THEN s.exc ELSE IF RetTruthy(s.ret) THEN g.exc ELSE ""

Return(op, k, exc, cache) ==
  Finish(op, 0, k, exc, IF exc = "" THEN cache ELSE None, RetNone)

temperature ==
  /\ Ready
  /\ IF CacheUnset(_temperature)
     THEN \E o \in StatusOutcomes, dur \in Durations :
          \E s \in {status(variant, K, o, dur)} :
          \E g \in {get_temperature(s.ret.d)} :
            /\ _temperature' = Cached(_temperature, s, g)
            /\ Return("temperature", s.k, Raised(s, g), Cached(_temperature, s, g))
     ELSE /\ UNCHANGED _temperature
          /\ Return("temperature", K, "", _temperature)
  /\ UNCHANGED <<_setpoint, _mode, _state>>

setpoint ==
  /\ Ready
  /\ IF CacheUnset(_setpoint)
     THEN \E o \in StatusOutcomes, dur \in Durations :
          \E s \in {status(variant, K, o, dur)} :
          \E g \in {get_setpoint(s.ret.d)} :
            /\ _setpoint' = Cached(_setpoint, s, g)
            /\ Return("setpoint", s.k, Raised(s, g), Cached(_setpoint, s, g))
     ELSE /\ UNCHANGED _setpoint
          /\ Return("setpoint", K, "", _setpoint)
  /\ UNCHANGED <<_temperature, _mode, _state>>

state ==
  /\ Ready
  /\ IF CacheUnset(_state)
     THEN \E o \in StatusOutcomes, dur \in Durations :
          \E s \in {status(variant, K, o, dur)} :
          \E g \in {get_state(s.ret.d)} :
            /\ _state' = Cached(_state, s, g)
            /\ Return("state", s.k, Raised(s, g), Cached(_state, s, g))
     ELSE /\ UNCHANGED _state
          /\ Return("state", K, "", _state)
  /\ UNCHANGED <<_temperature, _setpoint, _mode>>

\* the power query is a second exchange; it happens only when get_mode is
\* reached with data that asks for it
NoSecond == <<Failed("error"), 0>>
SecondOutcomes(v, s, reached) ==
  IF s.exc = "" /\ RetTruthy(s.ret) /\ reached /\ AsksPower(v, s.ret.d)
  THEN ParOutcomes \X Durations ELSE {NoSecond}

mode ==
  /\ Ready
  /\ IF CacheUnset(_mode)
     THEN \E o \in StatusOutcomes, dur \in Durations :
          \E s \in {status(variant, K, o, dur)} :
          \E second \in SecondOutcomes(variant, s, TRUE) :
          \E g \in {IF s.exc = "" /\ RetTruthy(s.ret)
                    THEN get_mode(variant, s.k, s.ret.d, second[1], second[2])
                    ELSE [k |-> s.k, val |-> None, exc |-> ""]} :
            /\ _mode' = Cached(_mode, s, g)
            /\ Return("mode", g.k, Raised(s, g), Cached(_mode, s, g))
     ELSE /\ UNCHANGED _mode
          /\ Return("mode", K, "", _mode)
  /\ UNCHANGED <<_temperature, _setpoint, _state>>

(* ------------------------------ mutators ------------------------------ *)
SetpointArgs == {18, 21}
ModeArgs == (0 - 1)..MaxModeArg
ValidModeUpTo2(val) == val \in {0, 1, 2}
ValidMode(val) == val \in {0, 1}

set_setpoint(val) ==
  /\ Ready
  /\ \E o \in WriteOutcomes, dur \in Durations :
       LET p == post(variant, K, WriteReq(<<<<125, 7, <<0>>>>, <<2, 2, <<1>>>>,
                                           <<5, 1, Str(val)>>>>), o, dur)
       IN /\ _setpoint' = IF variant = "lib" THEN PyFloat(val) ELSE _setpoint
          /\ Finish("set_setpoint", val, p.k, p.exc, None, RetNone)
  /\ UNCHANGED <<_temperature, _mode, _state>>

set_mode(val) ==
  /\ Ready
  /\ IF ~ValidMode(val)
     THEN /\ Finish("set_mode", val, K, "ValueError", None, RetNone)
          /\ UNCHANGED _mode
     ELSE \E o \in WriteOutcomes, dur \in Durations :
            LET p == post(variant, K, WriteReq(<<<<125, 7, <<0>>>>,
                                                <<2, 2, Str(val)>>>>), o, dur)
            IN /\ _mode' = IF variant = "lib"
                           THEN (IF val = 1 THEN PyInt(3) ELSE PyInt(0))
                           ELSE _mode
               /\ Finish("set_mode", val, p.k, p.exc, None, RetNone)
  /\ UNCHANGED <<_temperature, _setpoint, _state>>

turn_on ==
  /\ Ready
  /\ \E o \in WriteOutcomes, dur \in Durations :
       LET p == post(variant, K, WriteReq(<<<<125, 7, <<0>>>>>>), o, dur)
       IN Finish("turn_on", 0, p.k, p.exc, None, p.ret)
  /\ UNCHANGED <<_temperature, _setpoint, _mode, _state>>

\* the cached mode turn_off leaves behind
ModeAfterTurnOff(v, m) == IF v = "lib" THEN PyBool(FALSE) ELSE m

turn_off ==
  /\ Ready
  /\ \E o \in WriteOutcomes, dur \in Durations :
       LET p == post(variant, K, WriteReq(<<<<125, 7, <<1>>>>>>), o, dur)
       IN /\ _mode' = ModeAfterTurnOff(variant, _mode)
          /\ Finish("turn_off", 0, p.k, p.exc, None, p.ret)
  /\ UNCHANGED <<_temperature, _setpoint, _state>>

\* status() called directly: post() seen from the caller
get_status ==
  /\ Ready
  /\ \E o \in StatusOutcomes, dur \in Durations :
       LET p == status(variant, K, o, dur)
       IN Finish("status", 0, p.k, p.exc, None, p.ret)
  /\ UNCHANGED <<_temperature, _setpoint, _mode, _state>>

(* ------------------------------- update ------------------------------- *)
\* the wait update() adds in front of status()
UpdateWait(v, k) ==
  IF v = "lib" /\ ~(k.now - k.last > UpdateIdleSeconds)
  THEN [k EXCEPT !.now = @ + ThrottleSeconds] ELSE k

Caches == [setpoint |-> _setpoint, temperature |-> _temperature,
           mode |-> _mode, state |-> _state]

\* the four assignments of update(), in source order; an exception ends them.
\* sp, te, st are the decoded fields, mo is get_mode's result, k the bookkeeping
\* before get_mode ran
Assign(c, k, sp, te, mo, st) ==
  IF sp.exc # "" THEN [k |-> k, c |-> c, exc |-> sp.exc]
  ELSE IF te.exc # ""
    THEN [k |-> k, c |-> [c EXCEPT !.setpoint = sp.val], exc |-> te.exc]
  ELSE IF mo.exc # ""
    THEN [k |-> mo.k, exc |-> mo.exc,
          c |-> [c EXCEPT !.setpoint = sp.val, !.temperature = te.val]]
  ELSE IF st.exc # ""
    THEN [k |-> mo.k, exc |-> st.exc,
          c |-> [c EXCEPT !.setpoint = sp.val, !.temperature = te.val,
                          !.mode = mo.val]]
  ELSE [k |-> mo.k, exc |-> "",
        c |-> [setpoint |-> sp.val, temperature |-> te.val, mode |-> mo.val,
               state |-> st.val]]

\* whether update() gets as far as get_mode
ReachesMode(data) == get_setpoint(data).exc = "" /\ get_temperature(data).exc = ""

update ==
  /\ Ready
  /\ \E o \in StatusOutcomes, dur \in Durations :
     \E s \in {status(variant, UpdateWait(variant, K), o, dur)} :
     \E second \in SecondOutcomes(variant, s, ReachesMode(s.ret.d)) :
     \E mo \in {IF s.exc = "" /\ RetTruthy(s.ret) /\ ReachesMode(s.ret.d)
                THEN get_mode(variant, s.k, s.ret.d, second[1], second[2])
                ELSE [k |-> s.k, val |-> None, exc |-> ""]} :
     \E r \in {IF s.exc = "" /\ RetTruthy(s.ret)
               THEN Assign(Caches, s.k, get_setpoint(s.ret.d),
                           get_temperature(s.ret.d), mo, get_state(s.ret.d))
               ELSE [k |-> s.k, c |-> Caches, exc |-> s.exc]} :
       /\ _setpoint' = r.c.setpoint
       /\ _temperature' = r.c.temperature
       /\ _mode' = r.c.mode
       /\ _state' = r.c.state
       /\ Finish("update", 0, r.k, r.exc, None, RetNone)

(* ------------------------ the caller moves on ------------------------- *)
\* the call has returned (or raised); the caller waits step ticks before the next
Resume(step) ==
  /\ phase = "ready"
  /\ lastOp.op # "none"
  /\ \/ step = 0
     \/ step <= MaxIdle /\ now <= MaxTime
     \/ step > MaxIdle /\ now <= MaxIdle
  /\ now' = now + step
  /\ lastOp' = NoOp
  /\ UNCHANGED <<variant, phase, clientVars, _last_request, lastDispatch,
                 afterTurnOff, threadVars>>

IdleSteps == (0..MaxIdle) \cup {UpdateIdleSeconds + 1}

Variants == {"cc", "lib"}
Threads == {1, 2}

Init ==
  /\ variant \in Variants
  /\ phase = "new"
  /\ auth = [set |-> FALSE, user |-> "", pass |-> ""]
  /\ _setpoint = None /\ _temperature = None /\ _mode = None /\ _state = None
  /\ _last_request = 0
  /\ _in_progress = FALSE
  /\ now = 0
  /\ lastOp = NoOp
  /\ lastDispatch = 0 - 1
  /\ afterTurnOff = FALSE
  /\ pc = [t \in Threads |-> "idle"]
  /\ start_time = [t \in Threads |-> 0]
  /\ wakeAt = [t \in Threads |-> 0]
  /\ sentAt = [t \in Threads |-> 0 - 1]

Next ==
  \/ \E u \in Creds, p \in Creds, probe \in Probes, dur \in Durations :
       Construct(u, p, probe, dur)
  \/ temperature
  \/ setpoint
  \/ state
  \/ mode
  \/ \E val \in SetpointArgs : set_setpoint(val)
  \/ \E val \in ModeArgs : set_mode(val)
  \/ turn_on
  \/ turn_off
  \/ get_status
  \/ update
  \/ \E step \in IdleSteps : Resume(step)

Spec == Init /\ [][Next]_vars

(* ------------------- two threads inside post() ------------------------ *)
\* post() statement by statement, for callers on separate threads of one
\* client: read the clock, test the throttle, sleep, send, stamp
frameMT == <<variant, phase, clientVars, lastOp, lastDispatch, afterTurnOff>>

ReadClock(t) ==
  /\ pc[t] = "idle"
  /\ start_time' = [start_time EXCEPT ![t] = now]
  /\ pc' = [pc EXCEPT ![t] = "check"]
  /\ UNCHANGED <<frameMT, _last_request, now, wakeAt, sentAt>>

CheckThrottle(t) ==
  /\ pc[t] = "check"
  /\ IF Throttled(variant, start_time[t], _last_request, _in_progress)
     THEN /\ pc' = [pc EXCEPT ![t] = "sleep"]
          /\ wakeAt' = [wakeAt EXCEPT ![t] = now + ThrottleSeconds]
     ELSE /\ pc' = [pc EXCEPT ![t] = "send"]
          /\ UNCHANGED wakeAt
  /\ UNCHANGED <<frameMT, _last_request, now, start_time, sentAt>>

Wake(t) ==
  /\ pc[t] = "sleep"
  /\ now >= wakeAt[t]
  /\ pc' = [pc EXCEPT ![t] = "send"]
  /\ UNCHANGED <<frameMT, _last_request, now, start_time, wakeAt, sentAt>>

\* what stands between the throttle and requests.post: nothing
MayDispatchLocked(t) == pc[t] = "send" /\ \A u \in Threads \ {t} : pc[u] # "inflight"
MayDispatch(t) == pc[t] = "send"

Send(t) ==
  /\ MayDispatch(t)
  /\ pc' = [pc EXCEPT ![t] = "inflight"]
  /\ sentAt' = [sentAt EXCEPT ![t] = now]
  /\ UNCHANGED <<frameMT, _last_request, now, start_time, wakeAt>>

Complete(t, o) ==
  /\ pc[t] = "inflight"
  /\ _last_request' = IF Stamps(variant, o) THEN now ELSE _last_request
  /\ pc' = [pc EXCEPT ![t] = "idle"]
  /\ UNCHANGED <<frameMT, now, start_time, wakeAt, sentAt>>

Tick ==
  /\ now < MaxTime
  /\ now' = now + 1
  /\ UNCHANGED <<frameMT, _last_request, threadVars>>

\* a constructed client, shared by the threads
InitMT ==
  /\ variant \in Variants
  /\ phase = "ready"
  /\ auth = [set |-> FALSE, user |-> "", pass |-> ""]
  /\ _setpoint = None /\ _temperature = None /\ _mode = None /\ _state = None
  /\ _last_request = 0
  /\ _in_progress = FALSE
  /\ now = 0
  /\ lastOp = NoOp
  /\ lastDispatch = 0 - 1
  /\ afterTurnOff = FALSE
  /\ pc = [t \in Threads |-> "idle"]
  /\ start_time = [t \in Threads |-> 0]
  /\ wakeAt = [t \in Threads |-> 0]
  /\ sentAt = [t \in Threads |-> 0 - 1]

NextMT ==
  \/ \E t \in Threads : ReadClock(t)
  \/ \E t \in Threads : CheckThrottle(t)
  \/ \E t \in Threads : Wake(t)
  \/ \E t \in Threads : Send(t)
  \/ \E t \in Threads, o \in StatusOutcomes : Complete(t, o)
  \/ Tick

SpecMT == InitMT /\ [][NextMT]_vars

(* ============================== claims ================================ *)
Given(c) == c # ""
PrevAt(i) == IF i = 1 THEN lastOp.prev ELSE lastOp.posts[i - 1].at
TimedOut(o) == o.kind = "json" /\ DictGet(o.body, "status", "") = "timeout"
PostFailed(o) == o.kind \in {"error", "notjson"} \/ TimedOut(o)
Getters == {"temperature", "setpoint", "mode", "state"}
NumPosts(op, c) == Cardinality({i \in DOMAIN op.posts : IsCmd(op.posts[i], c)})
\* parameter 125 of a parameter-table answer has the value "0"
Param125IsZero(o) ==
  /\ o.kind = "json" /\ "par" \in DOMAIN o.body
  /\ \E i \in DOMAIN o.body["par"] :
       o.body["par"][i][1] = 125 /\ o.body["par"][i][3] = <<0>>

\* C1: against a device answering HTTP 200, construction succeeds when username
\* and password are both given or both absent, and fails with an error before
\* any request when exactly one of them is given.
C1_CredentialValidation ==
  (lastOp.op = "init" /\ lastOp.arg[3] = "200") =>
     IF Given(lastOp.arg[1]) = Given(lastOp.arg[2])
     THEN lastOp.exc = "" /\ phase = "ready"
     ELSE lastOp.exc # "" /\ lastOp.gets = 0 /\ phase = "failed"

\* C2: post() never raises: after a transport error, an undecodable body or a
\* body whose status is "timeout" it returns False, and otherwise it returns
\* the decoded body (seen through status(), turn_on() and turn_off(), which
\* return what post() returned).
C2_PostNeverRaises ==
  (lastOp.op \in {"status", "turn_on", "turn_off"}) =>
     /\ lastOp.exc = ""
     /\ Len(lastOp.posts) = 1
     /\ IF PostFailed(lastOp.posts[1].out)
        THEN lastOp.ret = RetFalse
        ELSE lastOp.ret = RetDict(lastOp.posts[1].out.body)

\* C3: when an operation has made POSTs, _last_request holds the time the last
\* attempt completed, and every POST was dispatched at least one second after
\* the client's previous POST was dispatched.
C3_ThrottleSpacing ==
  (lastOp.posts # <<>>) =>
     /\ _last_request = now
     /\ \A i \in DOMAIN lastOp.posts :
          PrevAt(i) >= 0 => lastOp.posts[i].at - PrevAt(i) >= ThrottleSeconds

\* C4: assigning to mode an integer other than 0 or 1 raises, dispatches no
\* request and leaves the cached mode and _last_request unchanged; assigning 0
\* or 1 dispatches exactly one POST, the parameter write of the mode flag.
C4_ModeSetter ==
  [][(lastOp'.op = "set_mode") =>
       IF lastOp'.arg \notin {0, 1}
       THEN /\ lastOp'.exc = "ValueError"
            /\ lastOp'.posts = <<>>
            /\ _mode' = _mode
            /\ _last_request' = _last_request
       ELSE /\ Len(lastOp'.posts) = 1
            /\ lastOp'.posts[1].req =
                 WriteReq(<<<<125, 7, <<0>>>>, <<2, 2, <<lastOp'.arg>>>>>>)]_vars
C4_Witness ==
  /\ lastOp.op = "set_mode" /\ lastOp.arg = 2 /\ lastOp.exc = "ValueError"
  /\ _mode = PyInt(3) /\ lastDispatch >= 0

\* C5: the mode read that follows turn_off() returns the off sentinel from the
\* cache and dispatches no request.
C5_ModeAfterTurnOff ==
  [][(afterTurnOff /\ lastOp'.op = "mode") =>
       /\ lastOp'.exc = ""
       /\ lastOp'.result = OffSentinel(variant)
       /\ lastOp'.posts = <<>>]_vars

\* C6: every update() dispatches a status request first, and when it finishes
\* either all four cached fields hold values of that one status response or
\* none of the four has changed.
AllFromResponse(o) ==
  /\ o.kind = "json"
  /\ {"t.1", "t.5", "m.1", "f.0"} \subseteq DOMAIN o.body
  /\ _setpoint' = get_setpoint(o.body).val
  /\ _temperature' = get_temperature(o.body).val
  /\ _state' = get_state(o.body).val
  /\ _mode' \in {OffSentinel(variant), PyInt(ParseNum(o.body["m.1"]))}
C6_UpdateAtomic ==
  [][(lastOp'.op = "update") =>
       /\ lastOp'.posts # <<>>
       /\ lastOp'.posts[1].req = StatusReq
       /\ \/ UNCHANGED <<_setpoint, _temperature, _mode, _state>>
          \/ AllFromResponse(lastOp'.posts[1].out)]_vars

\* C7: when a request made for a read of temperature, setpoint, mode or state
\* fails at the transport level (its other requests, if any, being answered
\* with complete status payloads), the getter does not raise and leaves that
\* property's cache unset.
C7_FailedReadLeavesCacheUnset ==
  (/\ lastOp.op \in Getters
   /\ \E i \in DOMAIN lastOp.posts : lastOp.posts[i].out.kind = "error"
   /\ \A i \in DOMAIN lastOp.posts :
        \/ lastOp.posts[i].out.kind = "error"
        \/ lastOp.posts[i].out \in {Json(b) : b \in Fw23Bodies \cup Fw24Bodies}) =>
       lastOp.exc = "" /\ Caches[lastOp.op] = None

\* C8: a mode read that returns normally from a status payload carrying m.1
\* picks its strategy by the presence of f.16: with f.16 no cmd 1 request is dispatched
\* and the result is the off sentinel iff f.16 is not 0, else m.1; without
\* f.16 exactly one cmd 1 request is dispatched and the result is m.1 iff
\* parameter 125 has the value "0", else the off sentinel.
C8_ModeStrategy ==
  (/\ lastOp.op = "mode" /\ lastOp.posts # <<>> /\ lastOp.exc = ""
   /\ lastOp.posts[1].out.kind = "json"
   /\ ~TimedOut(lastOp.posts[1].out)
   /\ "m.1" \in DOMAIN lastOp.posts[1].out.body) =>
     LET data == lastOp.posts[1].out.body
         m1 == PyInt(ParseNum(data["m.1"]))
     IN IF "f.16" \in DOMAIN data
        THEN /\ NumPosts(lastOp, 1) = 0
             /\ lastOp.result = IF ParseNum(data["f.16"]) # 0
                                THEN OffSentinel(variant) ELSE m1
        ELSE /\ NumPosts(lastOp, 1) = 1
             /\ Len(lastOp.posts) = 2
             /\ lastOp.result = IF Param125IsZero(lastOp.posts[2].out)
                                THEN m1 ELSE OffSentinel(variant)

\* C9: a read of temperature, setpoint, mode or state whose cache is set to
\* any value returns the cached value, dispatches nothing and leaves the cache
\* alone; a set cache is rewritten only by update() or a mutator; a read with
\* the cache unset dispatches a status request first and, when it returns
\* normally with data, has cached the decoded field and returns it.
DecodedField(op, o) ==
  CASE op = "temperature" -> {get_temperature(o.body).val}
    [] op = "setpoint" -> {get_setpoint(o.body).val}
    [] op = "state" -> {get_state(o.body).val}
    [] OTHER -> IF "m.1" \in DOMAIN o.body
                THEN {OffSentinel(variant), PyInt(ParseNum(o.body["m.1"]))}
                ELSE {OffSentinel(variant)}
Writers == {"update", "set_setpoint", "set_mode", "turn_off"}
C9_CachedRead ==
  [][/\ (lastOp'.op \in Getters) =>
          IF Caches[lastOp'.op] # None
          THEN /\ lastOp'.result = Caches[lastOp'.op]
               /\ lastOp'.exc = ""
               /\ lastOp'.posts = <<>>
               /\ Caches'[lastOp'.op] = Caches[lastOp'.op]
          ELSE /\ lastOp'.posts # <<>>
               /\ lastOp'.posts[1].req = StatusReq
               /\ (lastOp'.exc = "" /\ lastOp'.posts[1].out.kind = "json"
                   /\ ~PostFailed(lastOp'.posts[1].out)
                   /\ DOMAIN lastOp'.posts[1].out.body # {}) =>
                     /\ Caches'[lastOp'.op] # None
                     /\ Caches'[lastOp'.op] \in
                          DecodedField(lastOp'.op, lastOp'.posts[1].out)
                     /\ lastOp'.result = Caches'[lastOp'.op]
     /\ \A op \in Getters :
          (Caches[op] # None /\ Caches'[op] # Caches[op]) =>
             lastOp'.op \in Writers]_vars
C9_Witness ==
  /\ lastOp.op = "state" /\ lastOp.posts = <<>>
  /\ lastOp.result = PyBool(FALSE) /\ _state = PyBool(FALSE)
  /\ _mode = PyInt(0)

\* C10: nothing in post() makes a thread wait for another thread's POST: a
\* thread that is past the throttle can dispatch whatever the other threads
\* are doing, so both POSTs can be in flight at once, dispatched less than one
\* second apart.
C10_NoMutualExclusion ==
  \A t \in Threads : (pc[t] = "send") => ENABLED Send(t)
C10_Witness ==
  /\ pc[1] = "inflight" /\ pc[2] = "inflight"
  /\ sentAt[1] - sentAt[2] < ThrottleSeconds
  /\ sentAt[2] - sentAt[1] < ThrottleSeconds
  /\ _last_request > 0

====
